---- MODULE Spec2Model ----
(***************************************************************************)
(* Model of src/app.py (YouTubeChatAnalyzer): the paginated chat           *)
(* collector, the manual-input parser and the statistics aggregator.       *)
(* Python strings are modelled as sequences of one-character strings, so   *)
(* that split/strip/format are computed character by character.            *)
(***************************************************************************)
EXTENDS Integers, Sequences, FiniteSets, TLC

VARIABLES
    pc,                \* position of the running method
    youtube_api_key,   \* self.youtube_api_key (a string, or NONE)
    max_messages,      \* argument max_messages of collect_chat_with_api
    source,            \* the remote page source the requests are answered by
    chat_id,           \* local chat_id of collect_chat_with_api
    messages,          \* local list messages (collector) / argument messages (statistics)
    next_page_token,   \* local next_page_token
    trace,             \* history: the remote requests and sleeps performed, in order
    received,          \* history: the items of every page response, in order
    errors,            \* history: number of st.error calls
    raised,            \* TRUE when an exception left the method
    result,            \* the value returned by the method
    chat_input,        \* the text of the st.text_area
    submitted,         \* the value of st.form_submit_button
    lines,             \* local lines of collect_chat_manual_input
    i,                 \* the index of the for loop over lines
    now,               \* the wall clock read by datetime.now(), in microseconds
    hash_seed,         \* the per-process seed of Python's str hash
    stats,             \* the dict built by generate_chat_statistics
    analysis_type      \* argument analysis_type of analyze_with_claude

collectorVars == <<youtube_api_key, max_messages, source, chat_id, next_page_token,
                   trace, received, errors>>
manualVars == <<chat_input, submitted, lines, i, now, hash_seed>>

vars == <<pc, messages, raised, result, collectorVars, manualVars, stats,
          analysis_type>>

----------------------------------------------------------------------------
(* Bounds of the model *)

MaxN == 2
MaxPageItems == 2
MaxPages == 3
MaxMockPages == 4
MaxInputLen == 5
MaxMsgs == 3
MaxOver == 2

(* Program constants *)

PageMax == 200
SleepSeconds == 1
TopN == 10
Window == 300

----------------------------------------------------------------------------
(* Python values *)

NONE == <<"<None>">>
EMPTY == <<>>

Truthy(x) == x # NONE /\ x # EMPTY

Min(a, b) == IF a < b THEN a ELSE b

Get(d, k, default) == IF k \in DOMAIN d THEN d[k] ELSE default

RECURSIVE Digits(_)
Digits(n) ==
    LET d == <<"0", "1", "2", "3", "4", "5", "6", "7", "8", "9">>[(n % 10) + 1]
    IN  IF n < 10 THEN <<d>> ELSE Digits(n \div 10) \o <<d>>

TEXT_MESSAGE_EVENT ==
    <<"t", "e", "x", "t", "M", "e", "s", "s", "a", "g", "e", "E", "v", "e", "n", "t">>
UNKNOWN == <<"U", "n", "k", "n", "o", "w", "n">>

\* str(None)
NONE_STR == <<"N", "o", "n", "e">>

\* The default of analysis_type.
COMPREHENSIVE ==
    <<"c", "o", "m", "p", "r", "e", "h", "e", "n", "s", "i", "v", "e">>

----------------------------------------------------------------------------
(* The remote service *)

ApiKeys == {NONE, EMPTY, <<"k">>}

VideoItems ==
    { [kind |-> <<"v">>],
      [liveStreamingDetails |-> [actualEndTime |-> <<"9">>]],
      [liveStreamingDetails |-> [activeLiveChatId |-> EMPTY]],
      [liveStreamingDetails |-> [activeLiveChatId |-> <<"c">>]] }

ResolveResponses ==
    {[kind |-> "exception"]}
      \cup {[kind |-> "data", data |-> [error |-> <<"e">>]]}
      \cup {[kind |-> "data", data |-> [items |-> <<>>]]}
      \cup {[kind |-> "data", data |-> [items |-> <<v>>]] : v \in VideoItems}

ItemFull ==
    [snippet |-> [displayMessage |-> <<"h", "i">>, publishedAt |-> <<"1">>,
                  type |-> TEXT_MESSAGE_EVENT],
     authorDetails |-> [displayName |-> <<"A">>, channelId |-> <<"U", "C", "1">>,
                        isChatModerator |-> TRUE, isChatOwner |-> FALSE,
                        isVerified |-> FALSE]]

ItemEmptyText ==
    [snippet |-> [displayMessage |-> EMPTY, publishedAt |-> <<"2">>,
                  type |-> TEXT_MESSAGE_EVENT],
     authorDetails |-> [displayName |-> <<"A">>, channelId |-> <<"U", "C", "2">>,
                        isChatModerator |-> FALSE, isChatOwner |-> FALSE,
                        isVerified |-> FALSE]]

ItemBare ==
    [snippet |-> [hasDisplayContent |-> FALSE],
     authorDetails |-> [profileImageUrl |-> <<"p">>]]

ItemNoSnippet ==
    [authorDetails |-> [displayName |-> <<"B">>]]

ItemShapes == {ItemFull, ItemEmptyText, ItemBare, ItemNoSnippet}

\* The continuation token of page j: an opaque cursor, different on every page.
PageToken(j) == <<"t">> \o Digits(j)

\* The values of nextPageToken a response to the j-th page request may carry.
Tokens(j) == {EMPTY, PageToken(j)}

SeqsUpTo(S, n) == UNION {[1..k -> S] : k \in 0..n}

\* The bodies of the responses to the j-th page request: with or without
\* items, with or without a token, whatever maxResults asked for.
PageData(j) ==
    {[error |-> <<"e">>]}
      \cup {[error |-> <<"e">>, nextPageToken |-> t] : t \in Tokens(j)}
      \cup {[items |-> s, kind |-> <<"l">>] : s \in SeqsUpTo(ItemShapes, MaxPageItems)}
      \cup {[items |-> s, nextPageToken |-> t] :
                s \in SeqsUpTo(ItemShapes, MaxPageItems), t \in Tokens(j)}

MockItem(k) ==
    [snippet |-> [displayMessage |-> <<"m">>, publishedAt |-> Digits(k),
                  type |-> TEXT_MESSAGE_EVENT],
     authorDetails |-> [displayName |-> <<"A">>, channelId |-> <<"U", "C", "1">>,
                        isChatModerator |-> FALSE, isChatOwner |-> FALSE,
                        isVerified |-> FALSE]]

MockTargets == {350, 1000}

\* Page j of a source of `pages` pages: full pages, a token on all but the last.
MockPage(j, pages) ==
    LET items == [k \in 1..PageMax |-> MockItem((j - 1) * PageMax + k)]
    IN  IF j < pages
        THEN [items |-> items, nextPageToken |-> PageToken(j)]
        ELSE [items |-> items, kind |-> <<"l">>]

Sources ==
    {[kind |-> "any"]} \cup {[kind |-> "mock", pages |-> p] : p \in 1..MaxMockPages}

PageRequests(tr) == SelectSeq(tr, LAMBDA e : e.ev = "page")

\* The possible answers to the next page request.
PageResponses(src, tr) ==
    LET j == Len(PageRequests(tr)) + 1
    IN  IF src.kind = "mock"
        THEN {[kind |-> "data", data |-> MockPage(j, src.pages)]}
        ELSE {[kind |-> "exception"]} \cup {[kind |-> "data", data |-> d] : d \in PageData(j)}

----------------------------------------------------------------------------
(* collect_chat_with_api and get_live_chat_id *)

\* The record built from one item of a page.
MessageData(item) ==
    LET snippet == item.snippet
        author == item.authorDetails
    IN  [author |-> Get(author, "displayName", UNKNOWN),
         message |-> Get(snippet, "displayMessage", EMPTY),
         timestamp |-> Get(snippet, "publishedAt", EMPTY),
         author_channel_id |-> Get(author, "channelId", EMPTY),
         is_moderator |-> Get(author, "isChatModerator", FALSE),
         is_owner |-> Get(author, "isChatOwner", FALSE),
         is_verified |-> Get(author, "isVerified", FALSE),
         message_type |-> Get(snippet, "type", TEXT_MESSAGE_EVENT)]

\* item['snippet'] and item['authorDetails'] raise KeyError on an item without them.
WellFormed(item) == {"snippet", "authorDetails"} \subseteq DOMAIN item

\* The index of the first item of the list on which the loop body raises
\* KeyError, Len(items) + 1 when there is none.
FirstBad(items) ==
    IF \E k \in 1..Len(items) : ~WellFormed(items[k])
    THEN CHOOSE k \in 1..Len(items) :
            /\ ~WellFormed(items[k])
            /\ \A j \in 1..(k - 1) : WellFormed(items[j])
    ELSE Len(items) + 1

\* The for loop over data['items']: the list after the loop, and whether it
\* ran to the end (ok) or was left by a KeyError.
AppendItems(msgs, items) ==
    LET stop == FirstBad(items)
    IN  [messages |-> msgs \o [k \in 1..(stop - 1) |-> MessageData(items[k])],
         ok |-> stop > Len(items)]

\* Mutant of MaxResults: a full page is asked for whatever is still missing.
MaxResults_FullPage(n, collected) == PageMax

\* The value of params['maxResults'].
MaxResults(n, collected) == Min(PageMax, n - collected)

\* The request parameters of one page request.
PageParams(n, msgs, token) ==
    [ev |-> "page",
     maxResults |-> MaxResults(n, Len(msgs)),
     pageToken |-> IF Truthy(token) THEN token ELSE NONE]

\* Mutant of HandlePage: the except clause returns nothing of what was collected.
HandlePage_DropOnError(msgs, old_token, resp) ==
    IF resp.kind = "exception"
    THEN [messages |-> <<>>, token |-> old_token, outcome |-> "except"]
    ELSE IF "items" \notin DOMAIN resp.data
    THEN [messages |-> msgs, token |-> old_token, outcome |-> "break"]
    ELSE LET got == AppendItems(msgs, resp.data.items)
             token == Get(resp.data, "nextPageToken", NONE)
         IN  IF ~got.ok
             THEN [messages |-> <<>>, token |-> old_token, outcome |-> "except"]
             ELSE IF ~Truthy(token)
             THEN [messages |-> got.messages, token |-> token, outcome |-> "break"]
             ELSE [messages |-> got.messages, token |-> token, outcome |-> "sleep"]

\* The body of the while loop after the request has been answered. Every
\* exception raised in it is caught by the except clause of line 127 (outcome
\* "except"); an exception that left the method would be outcome "raise".
HandlePage(msgs, old_token, resp) ==
    IF resp.kind = "exception"
    THEN [messages |-> msgs, token |-> old_token, outcome |-> "except"]
    ELSE IF "items" \notin DOMAIN resp.data
    THEN [messages |-> msgs, token |-> old_token, outcome |-> "break"]
    ELSE LET got == AppendItems(msgs, resp.data.items)
             token == Get(resp.data, "nextPageToken", NONE)
         IN  IF ~got.ok
             THEN [messages |-> got.messages, token |-> old_token, outcome |-> "except"]
             ELSE IF ~Truthy(token)
             THEN [messages |-> got.messages, token |-> token, outcome |-> "break"]
             ELSE [messages |-> got.messages, token |-> token, outcome |-> "sleep"]

\* The value get_live_chat_id returns for a response of the videos endpoint.
LiveChatId(resp) ==
    IF resp.kind = "exception" THEN NONE
    ELSE IF "items" \in DOMAIN resp.data /\ Len(resp.data.items) > 0
    THEN Get(Get(resp.data.items[1], "liveStreamingDetails", [kind |-> <<"d">>]),
             "activeLiveChatId", NONE)
    ELSE NONE

\* Lines 66-68: without an API key nothing is requested.
CheckApiKey ==
    /\ pc = "start"
    /\ IF ~Truthy(youtube_api_key)
       THEN /\ pc' = "done"
            /\ errors' = errors + 1
            /\ result' = <<>>
       ELSE /\ pc' = "resolve"
            /\ UNCHANGED <<errors, result>>
    /\ UNCHANGED <<youtube_api_key, max_messages, source, chat_id, messages,
                   next_page_token, trace, received, raised, manualVars, stats, analysis_type>>

\* Mutant of GetLiveChatId: the result of get_live_chat_id is not checked.
GetLiveChatId_Unchecked(resp) ==
    /\ pc = "resolve"
    /\ trace' = Append(trace, [ev |-> "resolve"])
    /\ chat_id' = LiveChatId(resp)
    /\ pc' = "loop"
    /\ messages' = <<>>
    /\ next_page_token' = NONE
    /\ UNCHANGED <<youtube_api_key, max_messages, source, received, raised,
                   errors, result, manualVars, stats, analysis_type>>

\* Lines 70-79: get_live_chat_id, then the check of its result.
GetLiveChatId(resp) ==
    /\ pc = "resolve"
    /\ trace' = Append(trace, [ev |-> "resolve"])
    /\ chat_id' = LiveChatId(resp)
    /\ IF ~Truthy(chat_id')
       THEN /\ pc' = "done"
            /\ errors' = errors + (IF resp.kind = "exception" THEN 2 ELSE 1)
            /\ result' = <<>>
       ELSE /\ pc' = "loop"
            /\ UNCHANGED <<errors, result>>
    /\ messages' = <<>>
    /\ next_page_token' = NONE
    /\ UNCHANGED <<youtube_api_key, max_messages, source, received, raised,
                   manualVars, stats, analysis_type>>

\* Lines 82-122: one iteration of the while loop up to the sleep.
PageRequest(resp) ==
    /\ pc = "loop"
    /\ Len(messages) < max_messages
    /\ source.kind = "mock" \/ Len(PageRequests(trace)) < MaxPages
    /\ LET h == HandlePage(messages, next_page_token, resp)
       IN  /\ trace' = Append(trace, PageParams(max_messages, messages, next_page_token))
           /\ received' = IF resp.kind = "data" /\ "items" \in DOMAIN resp.data
                          THEN received \o resp.data.items ELSE received
           /\ messages' = h.messages
           /\ next_page_token' = h.token
           /\ errors' = IF h.outcome = "except" THEN errors + 1 ELSE errors
           /\ raised' = (h.outcome = "raise")
           /\ pc' = CASE h.outcome = "sleep" -> "sleep"
                      [] h.outcome = "raise" -> "done"
                      [] OTHER -> "return"
    /\ UNCHANGED <<youtube_api_key, max_messages, source, chat_id, result,
                   manualVars, stats, analysis_type>>

\* Mutant of Sleep: the delay grows with the number of pages requested.
Sleep_Backoff ==
    /\ pc = "sleep"
    /\ trace' = Append(trace, [ev |-> "sleep",
                               secs |-> SleepSeconds * Len(PageRequests(trace))])
    /\ pc' = "loop"
    /\ UNCHANGED <<youtube_api_key, max_messages, source, chat_id, messages,
                   next_page_token, received, errors, raised, result, manualVars, stats, analysis_type>>

\* Line 125: time.sleep(1).
Sleep ==
    /\ pc = "sleep"
    /\ trace' = Append(trace, [ev |-> "sleep", secs |-> SleepSeconds])
    /\ pc' = "loop"
    /\ UNCHANGED <<youtube_api_key, max_messages, source, chat_id, messages,
                   next_page_token, received, errors, raised, result, manualVars, stats, analysis_type>>

\* Line 82: the loop condition fails.
LoopExit ==
    /\ pc = "loop"
    /\ ~(Len(messages) < max_messages)
    /\ pc' = "return"
    /\ UNCHANGED <<messages, raised, result, collectorVars, manualVars, stats, analysis_type>>

\* Lines 130-131: return messages.
Return ==
    /\ pc = "return"
    /\ result' = messages
    /\ pc' = "done"
    /\ UNCHANGED <<messages, raised, collectorVars, manualVars, stats, analysis_type>>

NoManual ==
    /\ chat_input = <<>>
    /\ submitted = FALSE
    /\ lines = <<>>
    /\ i = 0
    /\ now = 0
    /\ hash_seed = 0

NoCollector ==
    /\ youtube_api_key = NONE
    /\ max_messages = 0
    /\ source = [kind |-> "any"]
    /\ chat_id = NONE
    /\ next_page_token = NONE
    /\ trace = <<>>
    /\ received = <<>>
    /\ errors = 0

Init ==
    /\ pc = "start"
    /\ youtube_api_key \in ApiKeys
    /\ source \in Sources
    /\ max_messages \in (IF source.kind = "mock" THEN MockTargets ELSE 0..MaxN)
    /\ chat_id = NONE
    /\ messages = <<>>
    /\ next_page_token = NONE
    /\ trace = <<>>
    /\ received = <<>>
    /\ errors = 0
    /\ raised = FALSE
    /\ result = <<>>
    /\ NoManual
    /\ stats = <<>>
    /\ analysis_type = COMPREHENSIVE

Next ==
    \/ CheckApiKey
    \/ \E resp \in ResolveResponses : GetLiveChatId(resp)
    \/ \E resp \in PageResponses(source, trace) : PageRequest(resp)
    \/ Sleep
    \/ LoopExit
    \/ Return

Spec == Init /\ [][Next]_vars

----------------------------------------------------------------------------
(* collect_chat_manual_input *)

Chars == {"a", ":", " ", "\n"}

ClockSteps == {0, 1}

HashSeeds == {0, 1}

\* The characters str.strip() removes.
IsSpace(c) == c \in {" ", "\n"}

RECURSIVE LStrip(_)
LStrip(s) == IF s # <<>> /\ IsSpace(Head(s)) THEN LStrip(Tail(s)) ELSE s

RECURSIVE RStrip(_)
RStrip(s) ==
    IF s # <<>> /\ IsSpace(s[Len(s)]) THEN RStrip(SubSeq(s, 1, Len(s) - 1)) ELSE s

\* str.strip()
Strip(s) == RStrip(LStrip(s))

\* str.split(sep): scan left to right, cutting at every separator.
RECURSIVE SplitFrom(_, _, _, _)
SplitFrom(s, sep, cur, acc) ==
    IF s = <<>> THEN Append(acc, cur)
    ELSE IF Head(s) = sep THEN SplitFrom(Tail(s), sep, <<>>, Append(acc, cur))
    ELSE SplitFrom(Tail(s), sep, Append(cur, Head(s)), acc)

Split(s, sep) == SplitFrom(s, sep, <<>>, <<>>)

\* sep in s
Contains(s, sep) == \E k \in 1..Len(s) : s[k] = sep

\* str.find(sep)
RECURSIVE Find(_, _, _)
Find(s, sep, k) ==
    IF k > Len(s) THEN 0 ELSE IF s[k] = sep THEN k ELSE Find(s, sep, k + 1)

\* str.split(sep, 1) of a string that contains sep
SplitOnce(s, sep) ==
    LET k == Find(s, sep, 1)
    IN  <<SubSeq(s, 1, k - 1), SubSeq(s, k + 1, Len(s))>>

CharCode(c) ==
    CASE c = "\n" -> 10 [] c = " " -> 32 [] c = ":" -> 58 [] c = "a" -> 97
      [] c = "U" -> 85 [] c = "s" -> 115 [] c = "e" -> 101 [] c = "r" -> 114
      [] OTHER -> 48

\* hash(str): a function of the string and of the seed of the process.
RECURSIVE PyHash(_, _)
PyHash(seed, s) ==
    IF s = <<>> THEN seed
    ELSE (PyHash(seed, SubSeq(s, 1, Len(s) - 1)) * 31 + CharCode(s[Len(s)])) % 67108864

\* Mutant of UserName: the line index is not shifted to 1-based.
UserName_ZeroBased(index) == <<"U", "s", "e", "r">> \o Digits(index)

\* f"User{i+1}"
UserName(index) == <<"U", "s", "e", "r">> \o Digits(index + 1)

\* f"UC{hash(author) % 1000000}"
ChannelId(seed, author) == <<"U", "C">> \o Digits(PyHash(seed, author) % 1000000)

\* Lines 194-200: the author and the message of one line.
ParsedLine(line, index) ==
    IF Contains(line, ":")
    THEN LET parts == SplitOnce(line, ":")
         IN  [author |-> Strip(parts[1]), message |-> Strip(parts[2])]
    ELSE [author |-> UserName(index), message |-> Strip(line)]

\* Line 206: datetime.now() - pd.Timedelta(minutes=len(lines)-i), in microseconds.
LineTimestamp(clock, nlines, index) == clock - (nlines - index) * 60000000

\* Lines 203-212
ManualMessageData(parsed, seed, clock, nlines, index) ==
    [author |-> parsed.author,
     message |-> parsed.message,
     timestamp |-> LineTimestamp(clock, nlines, index),
     author_channel_id |-> ChannelId(seed, parsed.author),
     is_moderator |-> FALSE,
     is_owner |-> FALSE,
     is_verified |-> FALSE,
     message_type |-> TEXT_MESSAGE_EVENT]

\* Lines 190-191: the form is evaluated.
SubmitForm ==
    /\ pc = "form"
    /\ IF submitted /\ chat_input # EMPTY
       THEN /\ lines' = Split(Strip(chat_input), "\n")
            /\ pc' = "line"
       ELSE /\ lines' = lines
            /\ pc' = "return"
    /\ i' = 0
    /\ UNCHANGED <<messages, raised, result, collectorVars, chat_input, submitted,
                   now, hash_seed, stats, analysis_type>>

\* Lines 193-213: one iteration of the for loop; the clock has advanced by
\* `tick` when datetime.now() reads it.
ParseLine(tick) ==
    /\ pc = "line"
    /\ i < Len(lines)
    /\ LET parsed == ParsedLine(lines[i + 1], i)
       IN  IF parsed.message # EMPTY
           THEN /\ now' = now + tick
                /\ messages' = Append(messages,
                       ManualMessageData(parsed, hash_seed, now', Len(lines), i))
           ELSE /\ tick = 0
                /\ UNCHANGED <<now, messages>>
    /\ i' = i + 1
    /\ pc' = IF i' < Len(lines) THEN "line" ELSE "return"
    /\ UNCHANGED <<raised, result, collectorVars, chat_input, submitted, lines,
                   hash_seed, stats, analysis_type>>

InitManual ==
    /\ pc = "form"
    /\ chat_input \in SeqsUpTo(Chars, MaxInputLen)
    /\ submitted \in BOOLEAN
    /\ hash_seed \in HashSeeds
    /\ lines = <<>>
    /\ i = 0
    /\ now = 0
    /\ messages = <<>>
    /\ raised = FALSE
    /\ result = <<>>
    /\ NoCollector
    /\ stats = <<>>
    /\ analysis_type = COMPREHENSIVE

NextManual ==
    \/ SubmitForm
    \/ \E tick \in ClockSteps : ParseLine(tick)
    \/ Return

SpecManual == InitManual /\ [][NextManual]_vars

----------------------------------------------------------------------------
(* generate_chat_statistics *)

\* A Python float that is the quotient of two integers.
Ratio(a, b) == [num |-> a, den |-> b]

Record(author, channel, message, moderator, owner, verified) ==
    [author |-> author, message |-> message, timestamp |-> <<"1">>,
     author_channel_id |-> channel, is_moderator |-> moderator,
     is_owner |-> owner, is_verified |-> verified,
     message_type |-> TEXT_MESSAGE_EVENT]

StatRecords ==
    { Record(<<"A">>, <<"U", "C", "1">>, <<"h", "i">>, TRUE, FALSE, FALSE),
      Record(<<"A">>, <<"U", "C", "2">>, <<"h", "e", "y">>, FALSE, FALSE, FALSE),
      Record(<<"B">>, <<"U", "C", "1">>, <<"h", "i">>, FALSE, TRUE, FALSE),
      Record(<<"C">>, <<"U", "C", "3">>, <<"h">>, FALSE, FALSE, TRUE),
      Record(NONE, <<"U", "C", "4">>, <<"h", "i">>, FALSE, FALSE, FALSE) }

WideAuthor(k) == <<"W">> \o Digits(k)

\* Messages of TopN + 1 authors, author k posting k + 1 times in a row, except
\* that authors x and y post once each.
RECURSIVE WideBlocks(_, _, _)
WideBlocks(k, x, y) ==
    IF k = 0 THEN <<>>
    ELSE WideBlocks(k - 1, x, y) \o
         [j \in 1..(IF k \in {x, y} THEN 1 ELSE k + 1) |->
            Record(WideAuthor(k), <<"U", "C">> \o Digits(k), <<"h", "i">>,
                   FALSE, FALSE, FALSE)]

WideInputs ==
    {WideBlocks(TopN + 1, x, y) : x \in 1..(TopN + 1), y \in 1..(TopN + 1)}

StatInputs == SeqsUpTo(StatRecords, MaxMsgs) \cup WideInputs

\* The values of a column.
Column(msgs, field) == [k \in 1..Len(msgs) |-> msgs[k][field]]

\* Mutant of Nunique: the values are counted, not the distinct values.
Nunique_Count(col) == Cardinality({k \in 1..Len(col) : col[k] # NONE})

\* Series.nunique(): the number of distinct values, nulls not counted.
Nunique(col) == Cardinality({col[k] : k \in 1..Len(col)} \ {NONE})

\* Series.sum() of a boolean column.
SumTrue(col) == Cardinality({k \in 1..Len(col) : col[k]})

RECURSIVE SumLen(_)
SumLen(col) == IF col = <<>> THEN 0 ELSE Len(Head(col)) + SumLen(Tail(col))

\* Series.str.len().mean()
MeanLen(col) == Ratio(SumLen(col), Len(col))

CountIn(col, v) == Cardinality({k \in 1..Len(col) : col[k] = v})

Perms(S) == {f \in [1..Cardinality(S) -> S] : \A v \in S : \E k \in DOMAIN f : f[k] = v}

\* Series.value_counts(): the distinct non-null values, by descending count.
\* The sort is pandas' default sort_values(ascending=False), which is not a
\* stable sort: values with equal counts come out in an order that depends on
\* the pandas/numpy build, so every order of them is an outcome.
RECURSIVE SortedByCount(_, _)
SortedByCount(col, values) ==
    IF values = {} THEN {<<>>}
    ELSE LET top == {v \in values : \A w \in values : CountIn(col, v) >= CountIn(col, w)}
         IN  {p \o rest : p \in Perms(top), rest \in SortedByCount(col, values \ top)}

ValueCountsOrders(col) == SortedByCount(col, {col[k] : k \in 1..Len(col)} \ {NONE})

\* Mutant of Head_: the Series is not cut.
Head_All(order, n) == order

\* .head(n)
Head_(order, n) == SubSeq(order, 1, Min(n, Len(order)))

\* .to_dict(): the values with their counts, in the order of the Series.
ToDict(col, order) ==
    [k \in 1..Len(order) |-> [author |-> order[k], count |-> CountIn(col, order[k])]]

\* Lines 318-329: the dict stats.
Stats(msgs, order) ==
    LET authors == Column(msgs, "author")
    IN  [total_messages |-> Len(msgs),
         unique_users |-> Nunique(authors),
         messages_per_user |-> IF Nunique(authors) > 0
                               THEN Ratio(Len(msgs), Nunique(authors))
                               ELSE Ratio(0, 1),
         moderator_messages |-> SumTrue(Column(msgs, "is_moderator")),
         owner_messages |-> SumTrue(Column(msgs, "is_owner")),
         verified_messages |-> SumTrue(Column(msgs, "is_verified")),
         top_chatters |-> ToDict(authors, Head_(order, TopN)),
         message_length_avg |-> IF Len(msgs) > 0
                                THEN MeanLen(Column(msgs, "message"))
                                ELSE Ratio(0, 1)]

\* Lines 315-316: an empty input returns {}.
StatisticsOfNothing ==
    /\ pc = "statistics"
    /\ messages = <<>>
    /\ result' = <<>>
    /\ pc' = "done"
    /\ UNCHANGED <<messages, raised, collectorVars, manualVars, stats, analysis_type>>

\* Lines 318-331
GenerateChatStatistics(order) ==
    /\ pc = "statistics"
    /\ messages # <<>>
    /\ stats' = Stats(messages, order)
    /\ result' = stats'
    /\ pc' = "done"
    /\ UNCHANGED <<messages, raised, collectorVars, manualVars, analysis_type>>

InitStats ==
    /\ pc = "statistics"
    /\ messages \in StatInputs
    /\ raised = FALSE
    /\ result = <<>>
    /\ stats = <<>>
    /\ analysis_type = COMPREHENSIVE
    /\ NoCollector
    /\ NoManual

NextStats ==
    \/ StatisticsOfNothing
    \/ \E order \in ValueCountsOrders(Column(messages, "author")) :
          GenerateChatStatistics(order)

SpecStats == InitStats /\ [][NextStats]_vars

----------------------------------------------------------------------------
(* analyze_with_claude *)

QUESTIONS ==
    <<"q", "u", "e", "s", "t", "i", "o", "n", "s">>

SENTIMENT ==
    <<"s", "e", "n", "t", "i", "m", "e", "n", "t">>

THEMES ==
    <<"t", "h", "e", "m", "e", "s">>

\* The keys of the dict prompts.
Modes == {COMPREHENSIVE, QUESTIONS, SENTIMENT, THEMES}

AnalysisTypes == Modes \cup {<<"x">>}

NO_MESSAGES ==
    <<"N", "o", " ", "m", "e", "s", "s", "a", "g", "e", "s", " ", "t", "o", " ", "a",
      "n", "a", "l", "y", "z", "e">>

ERROR_PREFIX ==
    <<"E", "r", "r", "o", "r", " ", "a", "n", "a", "l", "y", "z", "i", "n", "g", " ",
      "c", "h", "a", "t", " ", "w", "i", "t", "h", " ", "C", "l", "a", "u", "d", "e",
      ":", " ">>

\* The replies of claude_client.messages.create: a message with a text
\* block, a message without content, or an exception of the client.
CompletionResponses ==
    { [kind |-> "message", content |-> <<[text |-> <<"o", "k">>]>>],
      [kind |-> "message", content |-> <<>>],
      [kind |-> "exception", text |-> <<"5", "2", "9">>] }

INDEX_ERROR ==
    <<"l", "i", "s", "t", " ", "i", "n", "d", "e", "x", " ", "o", "u", "t", " ", "o",
      "f", " ", "r", "a", "n", "g", "e">>

\* The value an f-string gives for a field.
Str(x) == IF x = NONE THEN NONE_STR ELSE x

\* Mutant of LastMessages: the first 300 messages are taken.
LastMessages_First(msgs) == SubSeq(msgs, 1, Min(Window, Len(msgs)))

\* messages[-300:]
LastMessages(msgs) ==
    SubSeq(msgs, IF Len(msgs) > Window THEN Len(msgs) - Window + 1 ELSE 1, Len(msgs))

\* f"{msg['author']}: {msg['message']}"
FormatLine(msg) == Str(msg.author) \o <<":", " ">> \o Str(msg.message)

\* sep.join(parts[lo..hi]), by halves.
RECURSIVE JoinRange(_, _, _, _)
JoinRange(parts, sep, lo, hi) ==
    IF lo > hi THEN <<>>
    ELSE IF lo = hi THEN parts[lo]
    ELSE LET mid == (lo + hi) \div 2
         IN  JoinRange(parts, sep, lo, mid) \o sep \o JoinRange(parts, sep, mid + 1, hi)

\* "\n".join(parts)
JoinLines(parts) == JoinRange(parts, <<"\n">>, 1, Len(parts))

\* Line 223
ChatText(msgs) ==
    LET last == LastMessages(msgs)
    IN  JoinLines([k \in 1..Len(last) |-> FormatLine(last[k])])

\* Lines 225-292: the dict prompts; each template embeds chat_text.
Prompts(chat_text) == [m \in Modes |-> [template |-> m, chat_text |-> chat_text]]

\* str(KeyError(key)) for a string key
KeyErrorStr(key) == <<"'">> \o key \o <<"'">>

\* Lines 308-311: the value returned for a reply of the service.
Reply(resp) ==
    IF resp.kind = "exception" THEN ERROR_PREFIX \o resp.text
    ELSE IF Len(resp.content) = 0 THEN ERROR_PREFIX \o INDEX_ERROR
    ELSE resp.content[1].text

\* Lines 219-220: nothing is sent for an empty list.
AnalyzeNothing ==
    /\ pc = "analyze"
    /\ messages = <<>>
    /\ result' = NO_MESSAGES
    /\ pc' = "done"
    /\ UNCHANGED <<messages, raised, collectorVars, manualVars, stats, analysis_type>>

\* Lines 223-311 when prompts[analysis_type] raises KeyError: it is evaluated
\* inside the try, before messages.create is called.
AnalyzeUnknownType ==
    /\ pc = "analyze"
    /\ messages # <<>>
    /\ analysis_type \notin DOMAIN Prompts(ChatText(messages))
    /\ result' = ERROR_PREFIX \o KeyErrorStr(analysis_type)
    /\ pc' = "done"
    /\ UNCHANGED <<messages, raised, collectorVars, manualVars, stats, analysis_type>>

\* Lines 223-311: the prompt is built, sent once and the reply returned.
AnalyzeWithClaude(resp) ==
    /\ pc = "analyze"
    /\ messages # <<>>
    /\ analysis_type \in DOMAIN Prompts(ChatText(messages))
    /\ trace' = Append(trace, [ev |-> "completion",
                               content |-> Prompts(ChatText(messages))[analysis_type],
                               response |-> resp])
    /\ result' = Reply(resp)
    /\ pc' = "done"
    /\ UNCHANGED <<messages, raised, youtube_api_key, max_messages, source, chat_id,
                   next_page_token, received, errors, manualVars, stats, analysis_type>>

\* n messages, the k-th with text k.
LongInput(n) ==
    [k \in 1..n |-> Record(<<"A">>, <<"U", "C", "1">>, Digits(k), FALSE, FALSE, FALSE)]

LongInputs == {LongInput(n) : n \in (Window - 1)..(Window + MaxOver)}

InsightInputs == SeqsUpTo(StatRecords, MaxMsgs) \cup LongInputs

InitInsight ==
    /\ pc = "analyze"
    /\ messages \in InsightInputs
    /\ analysis_type \in AnalysisTypes
    /\ raised = FALSE
    /\ result = <<>>
    /\ stats = <<>>
    /\ NoCollector
    /\ NoManual

NextInsight ==
    \/ AnalyzeNothing
    \/ AnalyzeUnknownType
    \/ \E resp \in CompletionResponses : AnalyzeWithClaude(resp)

SpecInsight == InitInsight /\ [][NextInsight]_vars

----------------------------------------------------------------------------
(* Claims about collect_chat_with_api *)

Done == pc = "done"
Resolved == chat_id \notin {NONE, EMPTY}
NPages == Len(PageRequests(trace))
NResolves == Len(SelectSeq(trace, LAMBDA e : e.ev = "resolve"))

\* C1: for every target count N and every sequence of page responses, the
\* returned sequence has at most N records.
C1_LengthAtMostN == Done => Len(result) <= max_messages

\* C2: against a source of full pages (200 items, a token on all but the last
\* page), N=350 returns exactly 350 records after exactly 2 page requests, and
\* N=1000, when the tokens run out earlier, stops after the token-less page with
\* fewer than 1000 records and no error.
C2_MockPageLoop ==
    (Done /\ Resolved /\ source.kind = "mock") =>
        /\ (max_messages = 350 /\ source.pages >= 2) =>
               (Len(result) = 350 /\ NPages = 2)
        /\ (max_messages = 1000 /\ source.pages * PageMax < 1000) =>
               /\ NPages = source.pages
               /\ Len(result) < 1000
               /\ errors = 0
               /\ ~raised

\* The records of the items received so far, in the order received: one per
\* item, up to the first item that cannot be converted.
RecordsOf(items) ==
    LET convertible == {k \in 1..Len(items) : \A j \in 1..k : WellFormed(items[j])}
    IN  [k \in 1..Cardinality(convertible) |-> MessageData(items[k])]

\* C3: once the chat handle is resolved no failure leaves the method, and
\* however the page loop ends the returned sequence is exactly the records of
\* the items received so far, in the order received; no collected record is
\* ever dropped.
C3_PartialResultsReturned ==
    /\ ~raised
    /\ Resolved => messages = RecordsOf(received)
    /\ (Done /\ Resolved) => result = RecordsOf(received)

C3_Witness ==
    /\ Done /\ Resolved
    /\ NPages = 2
    /\ errors = 1
    /\ Len(result) = 1
    /\ Len(received) = 1

\* C4: without a chat handle the method returns the empty sequence, issues no
\* page request and at most one resolve request.
C4_NoHandleNoRequests ==
    (Done /\ ~Resolved) => (result = <<>> /\ NPages = 0 /\ NResolves <= 1)

C4_Witness == Done /\ ~Resolved /\ NResolves = 1 /\ youtube_api_key = <<"k">>

\* C5: between two consecutive page requests there is exactly one sleep, of
\* 1 second, whatever the number of pages or failures.
C5_OneFixedDelayBetweenPages ==
    \A k \in 1..Len(trace) :
        (trace[k].ev = "page" /\ \E j \in 1..(k - 1) : trace[j].ev = "page") =>
            /\ trace[k - 1].ev = "sleep"
            /\ trace[k - 1].secs = 1
            /\ trace[k - 2].ev = "page"

C5_Witness == NPages = 3 /\ Len(trace) = 6

\* C6: no record returned by a collector has an empty text.
C6_NoEmptyText ==
    Done => \A k \in 1..Len(result) : result[k].message # EMPTY

----------------------------------------------------------------------------
(* Claims about collect_chat_manual_input *)

NewlinesIn(s) == {k \in 1..Len(s) : s[k] = "\n"}

LineCount(s) == Cardinality(NewlinesIn(s)) + 1

\* The position of the n-th newline of s.
NthNewline(s, n) ==
    CHOOSE k \in NewlinesIn(s) : Cardinality({j \in NewlinesIn(s) : j < k}) = n - 1

\* The n-th line of s (n from 1): the characters between two newlines.
LineOf(s, n) ==
    LET first == IF n = 1 THEN 1 ELSE NthNewline(s, n - 1) + 1
        last == IF n = LineCount(s) THEN Len(s) ELSE NthNewline(s, n) - 1
    IN  SubSeq(s, first, last)

\* s without its leading and trailing whitespace.
Trimmed(s) ==
    LET solid == {k \in 1..Len(s) : ~IsSpace(s[k])}
    IN  IF solid = {} THEN <<>>
        ELSE SubSeq(s, CHOOSE k \in solid : \A j \in solid : k <= j,
                       CHOOSE k \in solid : \A j \in solid : k >= j)

\* What the parsing rule gives for the line at 0-based index n.
ExpectedOf(line, n) ==
    LET colons == {k \in 1..Len(line) : line[k] = ":"}
    IN  IF colons # {}
        THEN LET c == CHOOSE k \in colons : \A j \in colons : k <= j
             IN  [author |-> Trimmed(SubSeq(line, 1, c - 1)),
                  message |-> Trimmed(SubSeq(line, c + 1, Len(line)))]
        ELSE [author |-> <<"U", "s", "e", "r">> \o Digits(n + 1),
              message |-> Trimmed(line)]

\* One record per line of the text with a non-empty text, in line order.
ExpectedRecords(text) ==
    SelectSeq([n \in 1..LineCount(text) |-> ExpectedOf(LineOf(text, n), n - 1)],
              LAMBDA r : r.message # EMPTY)

AuthorAndText(rs) ==
    [k \in 1..Len(rs) |-> [author |-> rs[k].author, message |-> rs[k].message]]

StrictlyIncreasingTimestamps(rs) ==
    \A k \in 1..(Len(rs) - 1) : rs[k].timestamp < rs[k + 1].timestamp

\* C10 as stated: each line of the input, at its 0-based index i among all the
\* lines of the input, gives at most one record (split on the first colon, or
\* author User<i+1>), lines with empty text are discarded, the records keep the
\* line order and carry strictly increasing timestamps.
C10_ManualParsingOfInputLines ==
    (Done /\ submitted) =>
        /\ AuthorAndText(result) = ExpectedRecords(chat_input)
        /\ StrictlyIncreasingTimestamps(result)

\* C10 as amended: the same, with the lines and their indices taken from the
\* input after the leading and trailing whitespace of the whole input has been
\* removed (leading blank lines are not counted).
C10_ManualParsingOfTrimmedInput ==
    (Done /\ submitted) =>
        /\ AuthorAndText(result) = ExpectedRecords(Trimmed(chat_input))
        /\ StrictlyIncreasingTimestamps(result)

C10_Witness ==
    /\ Done /\ submitted
    /\ chat_input = <<"a", ":", "a", "\n", "a">>
    /\ Len(result) = 2
    /\ result[1].author = <<"a">>
    /\ result[2].author = <<"U", "s", "e", "r", "2">>
    /\ result[1].timestamp < result[2].timestamp

----------------------------------------------------------------------------
(* Claims about generate_chat_statistics *)

ZERO == Ratio(0, 1)

\* C7: on an empty sequence every field of the summary is defined:
\* totalMessages = 0, uniqueAuthors = 0, avgMessagesPerAuthor = 0,
\* avgMessageLength = 0 and topAuthors is the empty mapping.
C7_EmptyInputSummary ==
    (Done /\ messages = <<>>) =>
        /\ {"total_messages", "unique_users", "messages_per_user",
            "message_length_avg", "top_chatters"} \subseteq DOMAIN result
        /\ result.total_messages = 0
        /\ result.unique_users = 0
        /\ result.messages_per_user = ZERO
        /\ result.message_length_avg = ZERO
        /\ result.top_chatters = <<>>

AuthorIds == {messages[k].author_channel_id : k \in 1..Len(messages)}

AuthorNames == {messages[k].author : k \in 1..Len(messages)} \ {NONE}

HasNullAuthor == \E k \in 1..Len(messages) : messages[k].author = NONE

\* C8 as stated: for a non-empty sequence of records (each with a display
\* name) uniqueAuthors is the number of distinct authorId values and
\* avgMessagesPerAuthor is totalMessages divided by that number.
C8_UniqueAuthorsByAuthorId ==
    (Done /\ messages # <<>> /\ ~HasNullAuthor) =>
        /\ result.unique_users = Cardinality(AuthorIds)
        /\ result.messages_per_user = Ratio(Len(messages), Cardinality(AuthorIds))

\* C8 as amended: for a non-empty sequence uniqueAuthors is the number of
\* distinct author display names (a null name is not counted), and
\* avgMessagesPerAuthor is totalMessages divided by that number, 0 when the
\* number is 0.
C8_UniqueAuthorsByDisplayName ==
    (Done /\ messages # <<>>) =>
        /\ result.total_messages = Len(messages)
        /\ result.unique_users = Cardinality(AuthorNames)
        /\ result.messages_per_user =
              IF AuthorNames = {} THEN ZERO
              ELSE Ratio(Len(messages), Cardinality(AuthorNames))

C8_Witness ==
    /\ Done
    /\ Len(messages) = 3
    /\ messages[1].author = messages[2].author
    /\ messages[1].author_channel_id # messages[2].author_channel_id
    /\ messages[3].author # messages[1].author
    /\ messages[3].author_channel_id = messages[1].author_channel_id
    /\ result.unique_users = 2
    /\ result.messages_per_user = Ratio(3, 2)

TopAuthors == IF "top_chatters" \in DOMAIN result THEN result.top_chatters ELSE <<>>

Ranked == {TopAuthors[k].author : k \in 1..Len(TopAuthors)}

MessagesOf(a) == Cardinality({k \in 1..Len(messages) : messages[k].author = a})

FirstAppearance(a) ==
    CHOOSE k \in 1..Len(messages) :
        /\ messages[k].author = a
        /\ \A j \in 1..(k - 1) : messages[j].author # a

\* At most 10 entries, one per author, each with the author's message count,
\* by descending count, and no author left out has more messages than one kept.
TopByCount ==
    /\ Len(TopAuthors) <= 10
    /\ Len(TopAuthors) = Min(10, Cardinality(AuthorNames))
    /\ Ranked \subseteq AuthorNames
    /\ Cardinality(Ranked) = Len(TopAuthors)
    /\ \A k \in 1..Len(TopAuthors) : TopAuthors[k].count = MessagesOf(TopAuthors[k].author)
    /\ \A p, q \in 1..Len(TopAuthors) : p < q => TopAuthors[p].count >= TopAuthors[q].count
    /\ \A a \in AuthorNames \ Ranked : \A b \in Ranked : MessagesOf(a) <= MessagesOf(b)

\* Authors with equal counts are ranked by first appearance, and at the
\* cut-off the earlier one is kept.
TiesByFirstAppearance ==
    /\ \A p, q \in 1..Len(TopAuthors) :
          (p < q /\ TopAuthors[p].count = TopAuthors[q].count) =>
              FirstAppearance(TopAuthors[p].author) < FirstAppearance(TopAuthors[q].author)
    /\ \A a \in AuthorNames \ Ranked : \A b \in Ranked :
          MessagesOf(a) = MessagesOf(b) => FirstAppearance(b) < FirstAppearance(a)

\* C9 as stated: topAuthors has at most 10 entries, is ordered by descending
\* count, holds the authors with the highest counts, and orders (and, at the
\* cut-off, keeps) authors with equal counts by first appearance in the input.
C9_TopAuthorsStableTies == Done => (TopByCount /\ TiesByFirstAppearance)

\* C9 as amended: topAuthors has at most 10 entries, is ordered by descending
\* count and holds the authors with the highest counts; the order of authors
\* with equal counts, and which of them is kept at the cut-off, is not fixed.
C9_TopAuthorsByCount == Done => TopByCount

C9_Witness ==
    /\ Done
    /\ Cardinality(AuthorNames) = 11
    /\ Len(TopAuthors) = 10
    /\ \E a \in AuthorNames \ Ranked :
          /\ MessagesOf(a) = TopAuthors[10].count
          /\ FirstAppearance(a) < FirstAppearance(TopAuthors[10].author)

----------------------------------------------------------------------------
(* Claims about the page requests of collect_chat_with_api *)

\* The step issues a page request.
IssuesPageRequest == Len(PageRequests(trace')) = Len(PageRequests(trace)) + 1

\* The request the step issues.
Issued == trace'[Len(trace')]

\* C12: every page request carries maxResults with 1 <= maxResults <= 200 and
\* maxResults <= N - (records collected so far); the first page request
\* carries no pageToken and every later one carries exactly the continuation
\* token returned by the response to the page request before it.
C12_PageRequestParameters ==
    [][IssuesPageRequest =>
          /\ Issued.ev = "page"
          /\ 1 <= Issued.maxResults
          /\ Issued.maxResults <= 200
          /\ Issued.maxResults <= max_messages - Len(messages)
          /\ Issued.pageToken = IF NPages = 0 THEN NONE ELSE PageToken(NPages)]_vars

C12_Witness ==
    /\ NPages = 3
    /\ max_messages = 2
    /\ Len(messages) = 1
    /\ PageRequests(trace)[1].pageToken = NONE
    /\ PageRequests(trace)[1].maxResults = 2
    /\ PageRequests(trace)[2].pageToken = PageToken(1)
    /\ PageRequests(trace)[3].pageToken = PageToken(2)
    /\ PageRequests(trace)[3].maxResults = 1


----------------------------------------------------------------------------
(* Claims about analyze_with_claude *)

Completions == SelectSeq(trace, LAMBDA e : e.ev = "completion")

\* The last min(300, length) records, formatted and joined in original order.
LastRecordsTranscript ==
    LET n == Min(300, Len(messages))
    IN  JoinLines([k \in 1..n |-> FormatLine(messages[Len(messages) - n + k])])

\* The reply of the one call is what is returned: its text, or an error string.
ReturnsReplyOrError ==
    LET resp == Completions[1].response
    IN  IF resp.kind = "message" /\ resp.content # <<>>
        THEN result = resp.content[1].text
        ELSE SubSeq(result, 1, Len(ERROR_PREFIX)) = ERROR_PREFIX

OneCallWithTranscript ==
    /\ Len(Completions) = 1
    /\ Completions[1].content.chat_text = LastRecordsTranscript
    /\ ReturnsReplyOrError

NothingToAnalyze ==
    /\ result = NO_MESSAGES
    /\ Len(Completions) = 0

\* C11 as stated: analyze_with_claude never raises and makes at most one
\* completion call; an empty input returns the fixed string with no call, and
\* every non-empty input makes exactly one call whose transcript is the last
\* min(300, length) records in order, failures being returned as error strings.
C11_OneCallForEveryNonEmptyInput ==
    Done =>
        /\ ~raised
        /\ Len(Completions) <= 1
        /\ messages = <<>> => NothingToAnalyze
        /\ messages # <<>> => OneCallWithTranscript

\* C11 amended: analyze_with_claude never raises and makes at most one
\* completion call; an empty input returns the fixed string with no call; a
\* non-empty input with one of the four analysis types makes exactly one call
\* whose transcript is the last min(300, length) records in order, and a
\* failure of that call is returned as an error string; a non-empty input with
\* any other analysis type makes no call and returns an error string.
C11_OneCallForKnownAnalysisType ==
    Done =>
        /\ ~raised
        /\ Len(Completions) <= 1
        /\ messages = <<>> => NothingToAnalyze
        /\ (messages # <<>> /\ analysis_type \in Modes) =>
               /\ OneCallWithTranscript
               /\ Completions[1].content.template = analysis_type
        /\ (messages # <<>> /\ analysis_type \notin Modes) =>
               /\ Len(Completions) = 0
               /\ SubSeq(result, 1, Len(ERROR_PREFIX)) = ERROR_PREFIX

\* A failed call over more than 300 records: one call, the error returned.
C11_Witness ==
    /\ Done
    /\ Len(messages) = 302
    /\ Len(Completions) = 1
    /\ Completions[1].response.kind = "exception"
    /\ Completions[1].content.chat_text = LastRecordsTranscript
    /\ result = ERROR_PREFIX \o <<"5", "2", "9">>

====
